---- MODULE Spec2Model ----
(***************************************************************************)
(* A model of src/main.cpp: the Lexer, the precedence-climbing Parser and  *)
(* the read-evaluate-print loop of main().                                 *)
(*                                                                         *)
(* Characters are modelled by one-element names: "1", "+", " " ... stand   *)
(* for themselves, "NUL", "LF", "CR" and "TAB" for '\0', '\n', '\r' and    *)
(* '\t'.  A std::string is the sequence of its characters; position i of   *)
(* the code (0-based) is element i + 1 of the sequence, and position       *)
(* size() holds the terminating '\0'.  A std::string_view is the pair of   *)
(* the offset of its first character and its length.                       *)
(*                                                                         *)
(* A double is modelled by the term that produced it: a literal is the     *)
(* decimal number m * 10^e that strtod converted, and the result of an     *)
(* arithmetic operation is the operation applied to its two operand terms, *)
(* in the order the code applies it.  IEEE-754 arithmetic is a function of *)
(* that term, so equal terms are equal doubles.                            *)
(*                                                                         *)
(* TLC's integers are 32 bits wide: a size_t that wrapped below zero is    *)
(* held as its signed residue (-1 stands for 2^64 - 1).                    *)
(***************************************************************************)
EXTENDS Integers, Sequences, FiniteSets, TLC

VARIABLES input, lexer, token, stack, results, status

vars == <<input, lexer, token, stack, results, status>>

(***************************************************************************)
(* Characters                                                              *)
(***************************************************************************)
NUL == "NUL"
LF == "LF"
CR == "CR"
TAB == "TAB"
SP == " "

isdigit(c) == c \in {"0", "1", "2", "3", "4", "5", "6", "7", "8", "9"}

\* The value of a decimal digit character.
DigitValue(c) ==
    CASE c = "0" -> 0 [] c = "1" -> 1 [] c = "2" -> 2 [] c = "3" -> 3
      [] c = "4" -> 4 [] c = "5" -> 5 [] c = "6" -> 6 [] c = "7" -> 7
      [] c = "8" -> 8 [] c = "9" -> 9

(***************************************************************************)
(* enum TokenType, with the numeric values the range test of compute_expr  *)
(* relies on.                                                              *)
(***************************************************************************)
ADD == 0
SUBTRACT == 1
MULTIPLY == 2
DIVIDE == 3
POWER == 4
NUMBER == 5
LEFT_PAREN == 6
RIGHT_PAREN == 7
ILLEGAL_CHARACTER == 8
END_OF_FILE == 9

\* Associativity, and the table OperatorMap[] indexed by TokenType.
LEFT == "LEFT"
RIGHT == "RIGHT"

\* OperatorMap[] with POWER entered as left-associative.
OperatorMapPowerLeft(type) ==
    CASE type = ADD      -> [prec |-> 1, assoc |-> LEFT]
      [] type = SUBTRACT -> [prec |-> 1, assoc |-> LEFT]
      [] type = MULTIPLY -> [prec |-> 2, assoc |-> LEFT]
      [] type = DIVIDE   -> [prec |-> 2, assoc |-> LEFT]
      [] type = POWER    -> [prec |-> 3, assoc |-> LEFT]

OperatorMap(type) ==
    CASE type = ADD      -> [prec |-> 1, assoc |-> LEFT]
      [] type = SUBTRACT -> [prec |-> 1, assoc |-> LEFT]
      [] type = MULTIPLY -> [prec |-> 2, assoc |-> LEFT]
      [] type = DIVIDE   -> [prec |-> 2, assoc |-> LEFT]
      [] type = POWER    -> [prec |-> 3, assoc |-> RIGHT]

\* struct Token: a string_view (data: offset into the source, length) and a type.
Token(data, length, type) ==
    [string |-> [data |-> data, length |-> length], type |-> type]

(***************************************************************************)
(* struct Lexer                                                            *)
(***************************************************************************)
\* Lexer::Lexer(std::string source)
Lexer(source) ==
    [source |-> source, current_position |-> 0, end |-> Len(source)]

\* source[i] for 0 <= i <= size(): position size() is the terminator.
CharAt(source, i) == IF i < Len(source) THEN source[i + 1] ELSE NUL

make_simple_token(l, type) == Token(l.current_position, 1, type)

is_at_end(l) == l.current_position >= l.end

peek(l) == IF is_at_end(l) THEN NUL ELSE CharAt(l.source, l.current_position)

peek_next(l) ==
    IF is_at_end(l) THEN NUL ELSE CharAt(l.source, l.current_position + 1)

\* read_next() as its effect on the lexer: the character it returns is never used.
read_next(l) ==
    IF is_at_end(l) THEN l
    ELSE [l EXCEPT !.current_position = l.current_position + 1]

RECURSIVE skip_whitespace(_)
skip_whitespace(l) ==
    IF peek(l) \in {LF, TAB, CR, SP} THEN skip_whitespace(read_next(l)) ELSE l

\* The for (;;) loop of number(): read on while the next character is a digit.
RECURSIVE ReadDigits(_)
ReadDigits(l) == IF isdigit(peek(l)) THEN ReadDigits(read_next(l)) ELSE l

\* number(): the token and the lexer after it.
number(l) ==
    LET start == l.current_position
        after == ReadDigits(read_next(l))
    IN  [t |-> Token(start, after.current_position - start, NUMBER), l |-> after]

\* next_token(): the token returned and the lexer after the call.
next_token(l0) ==
    LET l == skip_whitespace(l0)
        c == peek(l)
    IN  IF isdigit(c) THEN number(l)
        ELSE CASE c = "+" -> [t |-> make_simple_token(l, ADD), l |-> read_next(l)]
               [] c = "-" -> [t |-> make_simple_token(l, SUBTRACT), l |-> read_next(l)]
               [] c = "*" ->
                    IF peek_next(l) = "*"
                    THEN [t |-> Token(l.current_position, 2, POWER),
                          l |-> read_next(read_next(l))]
                    ELSE [t |-> make_simple_token(l, MULTIPLY), l |-> read_next(l)]
               [] c = "/" -> [t |-> make_simple_token(l, DIVIDE), l |-> read_next(l)]
               [] c = "(" -> [t |-> make_simple_token(l, LEFT_PAREN), l |-> read_next(l)]
               [] c = ")" -> [t |-> make_simple_token(l, RIGHT_PAREN), l |-> read_next(l)]
               [] OTHER ->
                    [t |-> IF c = NUL
                           THEN make_simple_token(l, END_OF_FILE)
                           ELSE make_simple_token(l, ILLEGAL_CHARACTER),
                     l |-> read_next(l)]

(***************************************************************************)
(* Values of type double                                                   *)
(***************************************************************************)
\* A trailing zero of the mantissa moves into the exponent: one term per number.
RECURSIVE Norm(_, _)
Norm(m, e) ==
    IF m = 0 THEN <<0, 0>>
    ELSE IF m % 10 = 0 THEN Norm(m \div 10, e + 1) ELSE <<m, e>>

\* The double m * 10^e.
Num(m, e) == LET n == Norm(m, e) IN <<"NUM", n[1], n[2], <<>>>>

\* The double that results from applying operation op to lhs and rhs.
Apply(op, lhs, rhs) == <<op, 0, 0, <<lhs, rhs>>>>

\* A double that holds nothing yet.
NoValue == <<"NONE", 0, 0, <<>>>>

(***************************************************************************)
(* std::strtod(token.string.data(), nullptr): the conversion starts at the *)
(* token's first character, a digit, and reads the source on from there    *)
(* for as long as the characters continue a floating-point literal; the    *)
(* string_view's length is not passed to it.  A decimal literal is         *)
(* digits [ '.' digits ] [ ('e'|'E') ['+'|'-'] digits ]; a hexadecimal one *)
(* is "0x" followed by hexadecimal digits with an optional '.'.  (A binary *)
(* exponent 'p' of a hexadecimal literal is not modelled: no input of the  *)
(* specifications below holds a 'p'.)                                      *)
(***************************************************************************)
isxdigit(c) ==
    isdigit(c) \/ c \in {"a", "b", "c", "d", "e", "f", "A", "B", "C", "D", "E", "F"}

HexDigitValue(c) ==
    IF isdigit(c) THEN DigitValue(c)
    ELSE CASE c \in {"a", "A"} -> 10 [] c \in {"b", "B"} -> 11
           [] c \in {"c", "C"} -> 12 [] c \in {"d", "D"} -> 13
           [] c \in {"e", "E"} -> 14 [] c \in {"f", "F"} -> 15

\* The number of consecutive decimal (hexadecimal) digits of source from position i.
RECURSIVE DigitRun(_, _)
DigitRun(source, i) ==
    IF isdigit(CharAt(source, i)) THEN 1 + DigitRun(source, i + 1) ELSE 0

RECURSIVE HexDigitRun(_, _)
HexDigitRun(source, i) ==
    IF isxdigit(CharAt(source, i)) THEN 1 + HexDigitRun(source, i + 1) ELSE 0

\* The number the n digits from position i denote in the given base, after acc.
RECURSIVE DigitsValue(_, _, _, _, _)
DigitsValue(source, i, n, base, acc) ==
    IF n = 0 THEN acc
    ELSE DigitsValue(source, i + 1, n - 1, base,
                     acc * base + HexDigitValue(CharAt(source, i)))

RECURSIVE Power(_, _)
Power(b, n) == IF n = 0 THEN 1 ELSE b * Power(b, n - 1)

StrtodDecimal(source, start) ==
    LET n1 == DigitRun(source, start)
        p1 == start + n1
        dot == CharAt(source, p1) = "."
        n2 == IF dot THEN DigitRun(source, p1 + 1) ELSE 0
        p2 == IF dot THEN p1 + 1 + n2 ELSE p1
        signed == CharAt(source, p2 + 1) \in {"+", "-"}
        p3 == IF signed THEN p2 + 2 ELSE p2 + 1
        n3 == IF CharAt(source, p2) \in {"e", "E"} THEN DigitRun(source, p3) ELSE 0
        ex == DigitsValue(source, p3, n3, 10, 0)
        exponent == IF signed /\ CharAt(source, p2 + 1) = "-" THEN 0 - ex ELSE ex
        mantissa == DigitsValue(source, p1 + 1, n2, 10,
                                DigitsValue(source, start, n1, 10, 0))
    IN  Num(mantissa, exponent - n2)

StrtodHex(source, start) ==
    LET n1 == HexDigitRun(source, start + 2)
        p1 == start + 2 + n1
        dot == CharAt(source, p1) = "."
        n2 == IF dot THEN HexDigitRun(source, p1 + 1) ELSE 0
        mantissa == DigitsValue(source, p1 + 1, n2, 16,
                                DigitsValue(source, start + 2, n1, 16, 0))
    IN  \* mantissa / 16^n2 = mantissa * 625^n2 * 10^(-4 * n2)
        Num(mantissa * Power(625, n2), 0 - 4 * n2)

strtod(source, start) ==
    LET n1 == HexDigitRun(source, start + 2)
        dot == CharAt(source, start + 2 + n1) = "."
        n2 == IF dot THEN HexDigitRun(source, start + 3 + n1) ELSE 0
    IN  IF /\ CharAt(source, start) = "0"
           /\ CharAt(source, start + 1) \in {"x", "X"}
           /\ n1 + n2 >= 1
        THEN StrtodHex(source, start)
        ELSE StrtodDecimal(source, start)

(***************************************************************************)
(* struct Parser                                                           *)
(***************************************************************************)
\* Parser::token before the first next_token(): never read while it holds this.
NoToken == Token(0, 0, 0 - 1)

\* compute_op(t, lhs, rhs); its default branch raises "Unknown operator".
compute_op(t, lhs, rhs) ==
    CASE t.type = ADD      -> Apply("ADD", lhs, rhs)
      [] t.type = SUBTRACT -> Apply("SUBTRACT", lhs, rhs)
      [] t.type = MULTIPLY -> Apply("MULTIPLY", lhs, rhs)
      [] t.type = DIVIDE   -> Apply("DIVIDE", lhs, rhs)
      [] t.type = POWER    -> Apply("POWER", lhs, rhs)
      [] OTHER             -> NoValue

\* The activation record of a compute_expr or compute_atom call: the function,
\* where it stands (pc) and its locals.
Frame(fn, pc, minimum_precedence) ==
    [fn |-> fn, pc |-> pc, minimum_precedence |-> minimum_precedence,
     atom_lhs |-> NoValue, cur |-> NoToken, atom_rhs |-> NoValue, val |-> NoValue]

\* A call of compute_expr(minimum_precedence): its first statement calls
\* compute_atom(), whose frame is left on top, about to advance.
CallComputeExpr(stk, minimum_precedence) ==
    stk \o <<Frame("compute_expr", "atom", minimum_precedence),
             Frame("compute_atom", "enter", 0)>>

\* A call returns v into the frame now on top of stk, at the statement that
\* made the call: auto atom_lhs = compute_atom(); auto atom_rhs =
\* compute_expr(next_min_prec); double val = compute_expr(1).
Resume(stk, v) ==
    LET n == Len(stk)
        f == stk[n]
    IN  CASE f.fn = "compute_expr" /\ f.pc = "atom" ->
               [stk EXCEPT ![n].atom_lhs = v, ![n].pc = "loop"]
          [] f.fn = "compute_expr" /\ f.pc = "rhs" ->
               [stk EXCEPT ![n].atom_rhs = v, ![n].pc = "combine"]
          [] f.fn = "compute_atom" /\ f.pc = "paren" ->
               [stk EXCEPT ![n].val = v, ![n].pc = "close"]

Front(stk) == SubSeq(stk, 1, Len(stk) - 1)

Top == stack[Len(stack)]

(***************************************************************************)
(* show_error_location(): the length of the source line it renders and the *)
(* number of spaces it puts before the caret, both size_t.  A read outside *)
(* the string's storage yields any character, so the result is a set.      *)
(***************************************************************************)
MaxGarbage == 2

\* while (*start_of_line != '\n' && start_of_line > source_start) start_of_line--;
RECURSIVE StartOfLine(_, _)
StartOfLine(source, p) ==
    IF CharAt(source, p) # LF /\ p > 0 THEN StartOfLine(source, p - 1) ELSE p

\* while (*end_of_line != '\n' && *end_of_line != '\0') end_of_line++;
RECURSIVE EndOfLine(_, _)
EndOfLine(source, p) ==
    IF CharAt(source, p) \notin {LF, NUL} THEN EndOfLine(source, p + 1) ELSE p

show_error_location(source, tok) ==
    LET data == tok.string.data
        scanned == StartOfLine(source, data)
        start_of_line ==
            IF CharAt(source, scanned) = NUL THEN scanned + 1 ELSE scanned
        \* start_of_line past the terminator: the scan reads what follows the
        \* string in memory and stops after any number of characters.
        ends == IF start_of_line <= Len(source)
                THEN {EndOfLine(source, start_of_line)}
                ELSE {start_of_line + g : g \in 0 .. MaxGarbage}
        \* if (*(end_of_line - 1) == '\r') end_of_line--;
        trimmed(e) == IF e - 1 >= 0 /\ e - 1 <= Len(source)
                      THEN IF CharAt(source, e - 1) = CR THEN {e - 1} ELSE {e}
                      ELSE {e - 1, e}
    IN  { [source_line_len |-> end_of_line - start_of_line,
           space_before_caret |-> data - start_of_line] :
          end_of_line \in UNION {trimmed(e) : e \in ends} }

(***************************************************************************)
(* The state: main()'s remaining input lines, the Parser (its Lexer, its   *)
(* lookahead token and the call stack of compute_expr/compute_atom), what  *)
(* each evaluated line ended with, and where main() stands.                *)
(***************************************************************************)
\* The line that ends main()'s loop.
QuitLine == <<":", "q", "u", "i", "t">>

\* What the evaluation of a line ended with: the value main() printed, the
\* ParserException it caught and printed, or the end of the process.
Result(line, outcome, error, value, loc) ==
    [line |-> line, outcome |-> outcome, error |-> error, value |-> value,
     source_line_len |-> loc.source_line_len,
     space_before_caret |-> loc.space_before_caret]

NoLocation == [source_line_len |-> 0, space_before_caret |-> 0]

\* main(), lines 322-334: read a line; ":quit" ends the loop; otherwise build
\* the Lexer and the Parser and call parse(), that is compute_expr(1).
ReadLine ==
    /\ status = "prompt"
    /\ input # <<>>
    /\ input' = Tail(input)
    /\ IF Head(input) = QuitLine
       THEN /\ status' = "exited"
            /\ UNCHANGED <<lexer, token, stack, results>>
       ELSE /\ lexer' = Lexer(Head(input))
            /\ token' = NoToken
            /\ stack' = CallComputeExpr(<<>>, 1)
            /\ status' = "running"
            /\ UNCHANGED results

\* report_error(err) with the lookahead tok: render the location, throw the
\* ParserException, which main() catches and prints.  When a size_t of the
\* rendering wrapped, the string grows until the allocation fails: that
\* exception is not a ParserException, nothing catches it, the process ends.
report_error(err, tok, lex) ==
    \E loc \in show_error_location(lex.source, tok) :
        /\ token' = tok
        /\ lexer' = lex
        /\ stack' = <<>>
        /\ IF loc.source_line_len < 0 \/ loc.space_before_caret < 0
           THEN /\ results' = Append(results, Result(lex.source, "abort", err, NoValue, loc))
                /\ status' = "aborted"
           ELSE /\ results' = Append(results, Result(lex.source, "ParserException", err, NoValue, loc))
                /\ status' = "prompt"
        /\ UNCHANGED input

AtAtom(pc) ==
    /\ status = "running"
    /\ stack # <<>>
    /\ Top.fn = "compute_atom"
    /\ Top.pc = pc

AtExpr(pc) ==
    /\ status = "running"
    /\ stack # <<>>
    /\ Top.fn = "compute_expr"
    /\ Top.pc = pc

\* compute_atom, lines 196-198: next_token(); the token is '(': call compute_expr(1).
AtomLeftParen ==
    /\ AtAtom("enter")
    /\ LET nt == next_token(lexer) IN
        /\ nt.t.type = LEFT_PAREN
        /\ token' = nt.t
        /\ lexer' = nt.l
        /\ stack' = CallComputeExpr([stack EXCEPT ![Len(stack)].pc = "paren"], 1)
    /\ UNCHANGED <<input, results, status>>

\* compute_atom, lines 196, 206-208: next_token(); the token is END_OF_FILE.
AtomEndOfFile ==
    /\ AtAtom("enter")
    /\ LET nt == next_token(lexer) IN
        /\ nt.t.type = END_OF_FILE
        /\ report_error("UnexpectedEnd", nt.t, nt.l)

\* compute_atom, lines 196, 210-213: next_token(); the token is no NUMBER.
AtomUnexpected ==
    /\ AtAtom("enter")
    /\ LET nt == next_token(lexer) IN
        /\ nt.t.type \notin {LEFT_PAREN, END_OF_FILE, NUMBER}
        /\ report_error("UnexpectedToken", nt.t, nt.l)

\* compute_atom, lines 196, 215-217: next_token(); the token is a NUMBER:
\* convert it, next_token(), return the value.
AtomNumber ==
    /\ AtAtom("enter")
    /\ LET nt == next_token(lexer)
           val == strtod(lexer.source, nt.t.string.data)
           after == next_token(nt.l)
       IN
        /\ nt.t.type = NUMBER
        /\ token' = after.t
        /\ lexer' = after.l
        /\ stack' = Resume(Front(stack), val)
    /\ UNCHANGED <<input, results, status>>

\* compute_atom, lines 200-203: compute_expr(1) returned and the token is ')'.
AtomRightParen ==
    /\ AtAtom("close")
    /\ token.type = RIGHT_PAREN
    /\ LET nt == next_token(lexer) IN
        /\ token' = nt.t
        /\ lexer' = nt.l
        /\ stack' = Resume(Front(stack), Top.val)
    /\ UNCHANGED <<input, results, status>>

\* AtomUnmatched comparing with the wrong parenthesis: ')' is taken as missing
\* exactly when the token is '('.
AtomUnmatchedWrongParen ==
    /\ AtAtom("close")
    /\ token.type # RIGHT_PAREN
    /\ IF token.type = LEFT_PAREN
       THEN report_error("UnmatchedParen", token, lexer)
       ELSE LET nt == next_token(lexer) IN
             /\ token' = nt.t
             /\ lexer' = nt.l
             /\ stack' = Resume(Front(stack), Top.val)
             /\ UNCHANGED <<input, results, status>>

\* compute_atom, line 200: compute_expr(1) returned and the token is not ')'.
AtomUnmatched ==
    /\ AtAtom("close")
    /\ token.type # RIGHT_PAREN
    /\ report_error("UnmatchedParen", token, lexer)

\* The test of lines 225-226 on the lookahead: it is no operator, or binds
\* less tightly than minimum_precedence.
EndsExpr(cur, minimum_precedence) ==
    IF cur.type > POWER \/ cur.type < ADD THEN TRUE
    ELSE OperatorMap(cur.type).prec < minimum_precedence

\* ExprBreak with parse() requiring that the whole line was consumed.
ExprBreakWholeLine ==
    /\ AtExpr("loop")
    /\ EndsExpr(token, Top.minimum_precedence)
    /\ token.type # ILLEGAL_CHARACTER
    /\ IF Len(stack) = 1
       THEN IF token.type = END_OF_FILE
            THEN /\ stack' = <<>>
                 /\ results' = Append(results, Result(lexer.source, "value", "none", Top.atom_lhs, NoLocation))
                 /\ status' = "prompt"
                 /\ UNCHANGED <<input, lexer, token>>
            ELSE report_error("UnexpectedToken", token, lexer)
       ELSE /\ stack' = Resume(Front(stack), Top.atom_lhs)
            /\ UNCHANGED <<input, lexer, token, results, status>>

\* compute_expr, lines 224-232 and 244: break and return atom_lhs, into the
\* caller or, from parse(), into main(), which prints the value.
ExprBreak ==
    /\ AtExpr("loop")
    /\ EndsExpr(token, Top.minimum_precedence)
    /\ token.type # ILLEGAL_CHARACTER
    /\ IF Len(stack) = 1
       THEN /\ stack' = <<>>
            /\ results' = Append(results, Result(lexer.source, "value", "none", Top.atom_lhs, NoLocation))
            /\ status' = "prompt"
       ELSE /\ stack' = Resume(Front(stack), Top.atom_lhs)
            /\ UNCHANGED <<results, status>>
    /\ UNCHANGED <<input, lexer, token>>

\* ExprIllegal without the test for ILLEGAL_CHARACTER: the loop just breaks.
ExprIllegalBreaks ==
    /\ AtExpr("loop")
    /\ EndsExpr(token, Top.minimum_precedence)
    /\ token.type = ILLEGAL_CHARACTER
    /\ IF Len(stack) = 1
       THEN /\ stack' = <<>>
            /\ results' = Append(results, Result(lexer.source, "value", "none", Top.atom_lhs, NoLocation))
            /\ status' = "prompt"
       ELSE /\ stack' = Resume(Front(stack), Top.atom_lhs)
            /\ UNCHANGED <<results, status>>
    /\ UNCHANGED <<input, lexer, token>>

\* compute_expr, lines 224-230: the lookahead ends the expression and is illegal.
ExprIllegal ==
    /\ AtExpr("loop")
    /\ EndsExpr(token, Top.minimum_precedence)
    /\ token.type = ILLEGAL_CHARACTER
    /\ report_error("UnknownOperator", token, lexer)

\* compute_expr, lines 224-240: the lookahead is an operator that binds at
\* least as tightly as minimum_precedence: call compute_expr(next_min_prec).
ExprOperator ==
    /\ AtExpr("loop")
    /\ ~EndsExpr(token, Top.minimum_precedence)
    /\ LET op_prec == OperatorMap(token.type)
           next_min_prec == IF op_prec.assoc = LEFT THEN op_prec.prec + 1
                            ELSE op_prec.prec
       IN  stack' = CallComputeExpr(
                        [stack EXCEPT ![Len(stack)].cur = token,
                                      ![Len(stack)].pc = "rhs"],
                        next_min_prec)
    /\ UNCHANGED <<input, lexer, token, results, status>>

\* compute_expr, line 241: atom_lhs = compute_op(cur, atom_lhs, atom_rhs).
ExprCombine ==
    /\ AtExpr("combine")
    /\ IF Top.cur.type \in ADD .. POWER
       THEN /\ stack' = [stack EXCEPT
                           ![Len(stack)].atom_lhs =
                               compute_op(Top.cur, Top.atom_lhs, Top.atom_rhs),
                           ![Len(stack)].pc = "loop"]
            /\ UNCHANGED <<input, lexer, token, results, status>>
       ELSE report_error("UnknownOperator", token, lexer)

Next ==
    \/ ReadLine
    \/ AtomLeftParen
    \/ AtomEndOfFile
    \/ AtomUnexpected
    \/ AtomNumber
    \/ AtomRightParen
    \/ AtomUnmatched
    \/ ExprBreak
    \/ ExprIllegal
    \/ ExprOperator
    \/ ExprCombine

(***************************************************************************)
(* Inputs                                                                  *)
(***************************************************************************)
\* The line made of the pieces ps, each a sequence of characters.
RECURSIVE Flatten(_)
Flatten(ps) == IF ps = <<>> THEN <<>> ELSE Head(ps) \o Flatten(Tail(ps))

\* main() before it reads the lines.
Start(lines) ==
    /\ input = lines
    /\ lexer = Lexer(<<>>)
    /\ token = NoToken
    /\ stack = <<>>
    /\ results = <<>>
    /\ status = "prompt"

\* The evaluation of one line ends when main() has printed its value or its
\* error and stands at the prompt again, or when the process has ended.
Done == status \in {"prompt", "aborted"} /\ results # <<>>

Last == results[Len(results)]

Failed(r, err) == r.outcome = "ParserException" /\ r.error = err

\* One line of at most MaxPieces pieces.  A piece is a digit, a parenthesis,
\* an illegal character, an operator alone, or an operator with its right
\* operand, so that a line of few pieces holds several operators.  Adjacent
\* digits make longer numbers.
MaxPieces == 4

Pieces ==
    {<<"1">>, <<"(">>, <<")">>, <<"@">>, <<"-">>, <<"*", "*">>,
     <<"+", "1">>, <<"-", "1">>, <<"*", "1">>, <<"/", "1">>, <<"*", "*", "1">>}

Init == \E k \in 0 .. MaxPieces : \E ps \in [1 .. k -> Pieces] : Start(<<Flatten(ps)>>)

Spec == Init /\ [][Next]_vars

(***************************************************************************)
(* The Lexer alone: a client that calls next_token() again and again, on a *)
(* line that may hold every kind of whitespace and a '\0'.                 *)
(***************************************************************************)
LexerNextToken ==
    /\ status = "lexing"
    /\ LET nt == next_token(lexer) IN
        /\ token' = nt.t
        /\ lexer' = nt.l
    /\ UNCHANGED <<input, stack, results, status>>

NextLex == LexerNextToken

MaxLexChars == 3

LexChars == {"1", "+", "*", "@", SP, TAB, CR, LF, NUL}

InitLex ==
    \E k \in 0 .. MaxLexChars : \E line \in [1 .. k -> LexChars] :
        /\ input = <<>>
        /\ lexer = Lexer(line)
        /\ token = NoToken
        /\ stack = <<>>
        /\ results = <<>>
        /\ status = "lexing"

SpecLex == InitLex /\ [][NextLex]_vars

(***************************************************************************)
(* Lines with the characters that continue a floating-point literal after  *)
(* a digit run: '.', 'e', 'x', and a sign.                                 *)
(***************************************************************************)
MaxNumChars == 4

NumChars == {"0", "1", ".", "e", "x", "+", "(", ")"}

InitNum ==
    \E k \in 0 .. MaxNumChars : \E line \in [1 .. k -> NumChars] : Start(<<line>>)

SpecNum == InitNum /\ [][Next]_vars

(***************************************************************************)
(* Two lines, one after the other: a line with a run of whitespace put in  *)
(* at some position, then the line without it.  std::getline delivers no   *)
(* '\n', so the runs are of blanks, tabs and carriage returns.             *)
(***************************************************************************)
MaxWsPieces == 3

WsPieces == {<<"1">>, <<"+">>, <<"*">>, <<"(">>, <<")">>, <<"@">>, <<SP>>}

WsRuns == {<<SP>>, <<TAB>>, <<CR>>, <<SP, TAB>>}

InsertAt(line, k, run) ==
    SubSeq(line, 1, k) \o run \o SubSeq(line, k + 1, Len(line))

InitWs ==
    \E n \in 0 .. MaxWsPieces : \E ps \in [1 .. n -> WsPieces] :
        \E run \in WsRuns : \E k \in 0 .. Len(Flatten(ps)) :
            Start(<<InsertAt(Flatten(ps), k, run), Flatten(ps)>>)

SpecWs == InitWs /\ [][Next]_vars

(***************************************************************************)
(* The tokens of a line and the expressions they make, defined from the    *)
(* grammar and not from the parser:                                        *)
(*   expression ::= number | '(' expression ')' | expression op expression *)
(* where, outside parentheses, the last + or - splits the expression, else *)
(* the last * or /, else the first **.                                     *)
(***************************************************************************)
\* The tokens next_token() yields from lexer l up to, not including, the
\* first END_OF_FILE.
RECURSIVE LexAll(_)
LexAll(l) ==
    LET nt == next_token(l)
    IN  IF nt.t.type = END_OF_FILE THEN <<>> ELSE <<nt.t>> \o LexAll(nt.l)

Tokens(source) == LexAll(Lexer(source))

\* The characters a token's string_view spans.
Text(source, t) ==
    SubSeq(source, t.string.data + 1, t.string.data + t.string.length)

\* The decimal value of exactly the characters of token t.
DecimalValue(source, t) ==
    Num(DigitsValue(source, t.string.data, t.string.length, 10, 0), 0)

IsOperator(t) == t.type \in {ADD, SUBTRACT, MULTIPLY, DIVIDE, POWER}

OperatorName(t) ==
    CASE t.type = ADD -> "ADD" [] t.type = SUBTRACT -> "SUBTRACT"
      [] t.type = MULTIPLY -> "MULTIPLY" [] t.type = DIVIDE -> "DIVIDE"
      [] t.type = POWER -> "POWER"

\* The number of parentheses open before token i of ts.
RECURSIVE Depth(_, _)
Depth(ts, i) ==
    IF i <= 1 THEN 0
    ELSE Depth(ts, i - 1)
           + (IF ts[i - 1].type = LEFT_PAREN THEN 1
              ELSE IF ts[i - 1].type = RIGHT_PAREN THEN 0 - 1 ELSE 0)

Balanced(ts) ==
    /\ \A i \in 1 .. Len(ts) + 1 : Depth(ts, i) >= 0
    /\ Depth(ts, Len(ts) + 1) = 0

\* The positions of the operators of the given types outside all parentheses.
TopLevel(ts, types) ==
    {i \in 1 .. Len(ts) : ts[i].type \in types /\ Depth(ts, i) = 0}

Maximum(S) == CHOOSE x \in S : \A y \in S : y <= x
Minimum(S) == CHOOSE x \in S : \A y \in S : x <= y

\* Where ts splits into two operands; 0 when no operator is outside parentheses.
SplitAt(ts) ==
    IF TopLevel(ts, {ADD, SUBTRACT}) # {} THEN Maximum(TopLevel(ts, {ADD, SUBTRACT}))
    ELSE IF TopLevel(ts, {MULTIPLY, DIVIDE}) # {}
         THEN Maximum(TopLevel(ts, {MULTIPLY, DIVIDE}))
    ELSE IF TopLevel(ts, {POWER}) # {} THEN Minimum(TopLevel(ts, {POWER}))
    ELSE 0

\* ts is an expression of the grammar.  (An expression begins with a number
\* or a '(' and ends with a number or a ')': stated first, it settles most
\* token sequences at once.)
RECURSIVE IsExpression(_)
IsExpression(ts) ==
    /\ ts # <<>>
    /\ ts[1].type \in {NUMBER, LEFT_PAREN}
    /\ ts[Len(ts)].type \in {NUMBER, RIGHT_PAREN}
    /\ Balanced(ts)
    /\ LET i == SplitAt(ts)
           n == Len(ts)
       IN  IF i > 0
           THEN IsExpression(SubSeq(ts, 1, i - 1)) /\ IsExpression(SubSeq(ts, i + 1, n))
           ELSE IF n = 1 THEN ts[1].type = NUMBER
           ELSE /\ ts[1].type = LEFT_PAREN
                /\ ts[n].type = RIGHT_PAREN
                /\ IsExpression(SubSeq(ts, 2, n - 1))

\* The value of the expression ts of the line source.
RECURSIVE ValueOf(_, _)
ValueOf(source, ts) ==
    LET i == SplitAt(ts)
        n == Len(ts)
    IN  IF i > 0
        THEN Apply(OperatorName(ts[i]), ValueOf(source, SubSeq(ts, 1, i - 1)),
                   ValueOf(source, SubSeq(ts, i + 1, n)))
        ELSE IF n = 1 THEN DecimalValue(source, ts[1])
        ELSE ValueOf(source, SubSeq(ts, 2, n - 1))

\* ts is an atom: a number or an expression in parentheses.
IsAtom(ts) ==
    \/ Len(ts) = 1 /\ ts[1].type = NUMBER
    \/ /\ Len(ts) >= 3
       /\ ts[1].type = LEFT_PAREN
       /\ ts[Len(ts)].type = RIGHT_PAREN
       /\ IsExpression(SubSeq(ts, 2, Len(ts) - 1))

\* After ts an atom is required: ts is made of opening parentheses and of
\* atoms each followed by an operator.
RECURSIVE RequiresAtom(_)
RequiresAtom(ts) ==
    \/ ts = <<>>
    \/ ts # <<>> /\ ts[1].type = LEFT_PAREN /\ RequiresAtom(Tail(ts))
    \/ \E k \in 1 .. Len(ts) - 1 :
          /\ IsOperator(ts[k + 1])
          /\ IsAtom(SubSeq(ts, 1, k))
          /\ RequiresAtom(SubSeq(ts, k + 2, Len(ts)))

\* After ts[1 .. i - 1] an operator may follow: it ends with a complete atom
\* that stands where an atom is required.
OperatorPosition(ts, i) ==
    \E j \in 1 .. i - 1 :
        IsAtom(SubSeq(ts, j, i - 1)) /\ RequiresAtom(SubSeq(ts, 1, j - 1))

LineTokens == Tokens(lexer.source)

(***************************************************************************)
(* The claims                                                              *)
(***************************************************************************)

\* C1: for every line that is a valid expression, parse() returns the value
\* of the grouping fixed by the operator table (** before * / before + -,
\* + - * / grouping left to right, ** right to left, a parenthesized
\* sub-expression being one atom): the value the grammar gives it.
C1_ValueOfGrouping ==
    Done =>
        LET ts == LineTokens
        IN  IsExpression(ts) =>
                /\ Last.outcome = "value"
                /\ Last.value = ValueOf(lexer.source, ts)

\* A valid expression with a - and a ** outside parentheses has been evaluated.
C1_Witness ==
    /\ Done
    /\ IsExpression(LineTokens)
    /\ Cardinality(TopLevel(LineTokens, {POWER})) = 1
    /\ Cardinality(TopLevel(LineTokens, {SUBTRACT})) = 1
    /\ Last.outcome = "value"

\* Token i of ts is a '(' that stands where an atom is required and has no
\* matching ')' after it.
Unclosed(ts, i) ==
    /\ ts[i].type = LEFT_PAREN
    /\ RequiresAtom(SubSeq(ts, 1, i - 1))
    /\ \A j \in i + 1 .. Len(ts) :
          ~(ts[j].type = RIGHT_PAREN /\ Depth(ts, j) = Depth(ts, i) + 1
            /\ \A k \in i + 1 .. j : Depth(ts, k) > Depth(ts, i))

\* C2 as stated: every line in which a '(' (one the parser reaches as an
\* atom) has no matching ')' fails with UnmatchedParen and with no other error.
C2_UnclosedAlwaysUnmatched ==
    (Done /\ \E i \in 1 .. Len(LineTokens) : Unclosed(LineTokens, i)) =>
        Failed(Last, "UnmatchedParen")

\* Token i of ts is a '(' where an atom is required, followed by a complete
\* expression and then by the end of the line, a number or another '('.
UnclosedAfterExpression(ts, i) ==
    /\ ts[i].type = LEFT_PAREN
    /\ \E j \in i + 1 .. Len(ts) :
          /\ (j = Len(ts) \/ ts[j + 1].type \in {NUMBER, LEFT_PAREN})
          /\ IsExpression(SubSeq(ts, i + 1, j))
    /\ RequiresAtom(SubSeq(ts, 1, i - 1))

\* C2, amended: every line in which a '(' that stands where an atom is
\* required is followed by a complete sub-expression and then, instead of
\* ')', by the end of the line, a number or another '(' fails with
\* UnmatchedParen.
C2_UnmatchedAfterExpression ==
    Done =>
        LET ts == LineTokens
        IN  (\E i \in 1 .. Len(ts) : UnclosedAfterExpression(ts, i)) =>
                Failed(Last, "UnmatchedParen")

\* A line with a nested '(' after an operator, its sub-expression complete and
\* the line ending there, has failed.
C2_Witness ==
    /\ Done
    /\ \E i \in 3 .. Len(LineTokens) : UnclosedAfterExpression(LineTokens, i)
    /\ Last.outcome = "ParserException"

\* ts[1 .. j] is the leading expression of ts: an expression no longer prefix
\* of ts extends, with tokens left over after it.
LeadingExpression(ts, j) ==
    /\ j < Len(ts)
    /\ IsExpression(SubSeq(ts, 1, j))
    /\ \A k \in j + 1 .. Len(ts) : ~IsExpression(SubSeq(ts, 1, k))

\* C3 as stated: for every line made of a valid expression followed by
\* leftover tokens, parse() returns the value of the leading expression,
\* whatever the kind of the first leftover token.
C3_LeftoverAlwaysIgnored ==
    Done =>
        \A j \in 1 .. Len(LineTokens) :
            LeadingExpression(LineTokens, j) =>
                /\ Last.outcome = "value"
                /\ Last.value = ValueOf(lexer.source, SubSeq(LineTokens, 1, j))

\* C3, amended: for every line made of a valid expression followed by
\* leftover tokens the first of which is a number, a '(' or a ')', parse()
\* returns the value of the leading expression and raises no error.
C3_LeftoverAtomOrParenIgnored ==
    Done =>
        LET ts == LineTokens
        IN  \A j \in 1 .. Len(ts) - 1 :
                (/\ ts[j + 1].type \in {NUMBER, LEFT_PAREN, RIGHT_PAREN}
                 /\ LeadingExpression(ts, j)) =>
                    /\ Last.outcome = "value"
                    /\ Last.value = ValueOf(lexer.source, SubSeq(ts, 1, j))

\* An expression with an operator, followed by a ')' and more, has been evaluated.
C3_Witness ==
    /\ Done
    /\ \E j \in 3 .. Len(LineTokens) - 2 :
          /\ LeadingExpression(LineTokens, j)
          /\ LineTokens[j + 1].type = RIGHT_PAREN
    /\ Last.outcome = "value"

\* C4: whenever the evaluation of a line failed, the number of spaces put
\* before the caret is the offset in the line of the first character of the
\* lookahead token: not negative, not larger than the line's length.
C4_CaretAtToken ==
    (Done /\ Last.outcome # "value") =>
        /\ Last.space_before_caret = token.string.data
        /\ Last.space_before_caret >= 0
        /\ Last.space_before_caret <= Len(lexer.source)

\* C5: when the token at which an atom is required is END_OF_FILE the
\* evaluation fails with UnexpectedEndOfExpression, and when it is an
\* operator, a ')' or an illegal character it fails with UnexpectedToken.
C5_AtomRequired ==
    Done =>
        \A i \in 1 .. Len(LineTokens) + 1 :
            RequiresAtom(SubSeq(LineTokens, 1, i - 1)) =>
                IF i = Len(LineTokens) + 1
                THEN Failed(Last, "UnexpectedEnd")
                ELSE LineTokens[i].type \notin {NUMBER, LEFT_PAREN} =>
                         Failed(Last, "UnexpectedToken")

\* C6: once next_token() has returned END_OF_FILE, the next call returns
\* END_OF_FILE again and leaves the cursor where it was; and the cursor is
\* never beyond the end of the line.
C6_EndOfFileIsFinal ==
    /\ [](lexer.current_position <= lexer.end)
    /\ [][token.type = END_OF_FILE =>
            /\ token'.type = END_OF_FILE
            /\ lexer'.current_position = lexer.current_position]_vars

\* C7: whenever an illegal character is the lookahead where an operator may
\* follow a complete atom, at any depth of parentheses and after operators
\* of any precedence, the evaluation fails with UnknownOperator.
C7_IllegalOperator ==
    Done =>
        LET ts == LineTokens
        IN  \A i \in 2 .. Len(ts) :
                (ts[i].type = ILLEGAL_CHARACTER /\ OperatorPosition(ts, i)) =>
                    Failed(Last, "UnknownOperator")

\* An illegal character after the right operand of ** inside parentheses
\* has been met.
C7_Witness ==
    /\ Done
    /\ Len(LineTokens) >= 5
    /\ LineTokens[1].type = LEFT_PAREN
    /\ LineTokens[3].type = POWER
    /\ LineTokens[5].type = ILLEGAL_CHARACTER
    /\ OperatorPosition(LineTokens, 5)
    /\ Last.error = "UnknownOperator"

\* The kinds and texts of the tokens of a line.
KindsAndTexts(source) ==
    [i \in 1 .. Len(Tokens(source)) |->
        <<Tokens(source)[i].type, Text(source, Tokens(source)[i])>>]

\* C8: a line and the same line with a run of whitespace put in (or taken
\* out) between two tokens, before the first or after the last have the same
\* token kinds and texts, and parse() ends the same way on both: with the
\* same value or the same error.
C8_WhitespaceInsignificant ==
    (Len(results) = 2 /\ status \in {"prompt", "aborted"}) =>
        /\ KindsAndTexts(results[1].line) = KindsAndTexts(results[2].line)
        /\ results[1].outcome = results[2].outcome
        /\ results[1].error = results[2].error
        /\ results[1].value = results[2].value

\* C9: the value compute_atom returns for a NUMBER token is the decimal value
\* of exactly the token's text: no character after the digit run takes part.
C9_NumberIsTokenText ==
    [][(AtAtom("enter") /\ next_token(lexer).t.type = NUMBER) =>
          stack'[Len(stack')].atom_lhs =
              DecimalValue(lexer.source, next_token(lexer).t)]_vars

\* C10: the evaluation of a line ends with exactly one outcome, the value
\* parse() returned or the error it raised.
C10_ValueOrError ==
    /\ status # "aborted"
    /\ Done => (Len(results) = 1 /\ Last.outcome \in {"value", "ParserException"})

====
